---- MODULE Spec2Model ----
(***************************************************************************)
(* Model of sync.py: synchronise a GitHub organization's membership to a   *)
(* team.  One process run is: module-level configuration load, main()      *)
(* resolving the team, snapshotting both memberships and looping over the  *)
(* organization's members.  The directory (GitHub, reached through the     *)
(* PyGithub client) is the environment: every call to it either succeeds   *)
(* or fails, and a failing call either reports failure by its return       *)
(* value (the docstrings' "@retval False") or raises, which nothing in     *)
(* sync.py catches.                                                        *)
(***************************************************************************)
EXTENDS Integers, Sequences, FiniteSets, TLC

(***************************************************************************)
(* Bounds                                                                  *)
(***************************************************************************)
MaxOrg == 2        \* longest organization member list
MaxRuns == 2       \* process runs in succession against the same directory

(***************************************************************************)
(* Python values.  None is a value of its own, distinct from every string, *)
(* in particular from the string "None".                                   *)
(***************************************************************************)
PyNone == [t |-> "NoneType"]
PyStr(s) == [t |-> "str", v |-> s]
IsNone(x) == x.t = "NoneType"

\* str(x): the identity on strings, the text "None" for None
str(x) == IF IsNone(x) THEN PyStr("None") ELSE x

\* os.getenv(name, default)
getenv(e, name, default) == IF IsNone(e[name]) THEN default ELSE e[name]

\* str.lower() on the strings the model uses for DRY_RUN
lower(s) ==
    CASE s = "True" -> "true"
      [] s = "FALSE" -> "false"
      [] s = "False" -> "false"
      [] s = "No" -> "no"
      [] s = "Yes" -> "yes"
      [] OTHER -> s

(***************************************************************************)
(* Logins and regular expressions are sequences of characters.             *)
(***************************************************************************)
wes == <<"w", "e", "s">>
wanda == <<"W", "a", "n", "d", "a">>
jess == <<"j", "e", "s", "s">>
Logins == {wes, wanda, jess}

lowerChar(c) == IF c = "W" THEN "w" ELSE IF c = "U" THEN "u" ELSE c

\* re.compile: the only malformed pattern of the model is an unterminated group
re_malformed(regex) == \E i \in 1..Len(regex) : regex[i] = "("

\* re.search(regex, string, re.IGNORECASE) for patterns made of literal
\* characters, ".", a leading "^" and a trailing "$"
re_search(regex, string) ==
    LET anchoredStart == Len(regex) > 0 /\ regex[1] = "^"
        anchoredEnd == Len(regex) > 0 /\ regex[Len(regex)] = "$"
        from == IF anchoredStart THEN 2 ELSE 1
        to == IF anchoredEnd THEN Len(regex) - 1 ELSE Len(regex)
        body == SubSeq(regex, from, to)
        n == Len(body)
        matchesAt(i) ==
            /\ i + n - 1 <= Len(string)
            /\ \A k \in 1..n :
                  \/ body[k] = "."
                  \/ lowerChar(body[k]) = lowerChar(string[i + k - 1])
    IN \E i \in 1..(Len(string) + 1) :
          /\ matchesAt(i)
          /\ anchoredStart => i = 1
          /\ anchoredEnd => i + n - 1 = Len(string)

(***************************************************************************)
(* Rule sets (the parsed value of USER_FILTERS).  A dict is the sequence   *)
(* of its items in insertion order; a rule is a record whose domain is the *)
(* set of keys it has.                                                     *)
(***************************************************************************)
PyList == [t |-> "list"]                      \* json.loads("[]")
PyDict(items) == [t |-> "dict", items |-> items]

\* {}
F_empty == PyDict(<<>>)
\* {"login": {"reject": ["^w"], "allow": ["s$"]}}
F_wes == PyDict(<< <<"login", [reject |-> << <<"^", "w">> >>,
                              allow |-> << <<"s", "$">> >>]>> >>)
\* {"login": {"reject": ["^j", "("]}}: the second pattern does not compile
F_bad == PyDict(<< <<"login", [reject |-> << <<"^", "j">>, <<"(">> >>]>> >>)
\* {"team": {"reject": ["."]}}: a field the member object does not have
F_field == PyDict(<< <<"team", [reject |-> << <<".">> >>]>> >>)

\* {"login": {"reject": ["^w"], "order": 1},
\*  "type": {"reject": ["^u"], "allow": ["."], "order": 0}}
F_order == PyDict(<< <<"login", [reject |-> << <<"^", "w">> >>, order |-> 1]>>,
                     <<"type", [reject |-> << <<"^", "u">> >>,
                                allow |-> << <<".">> >>, order |-> 0]>> >>)

FilterSets == {F_empty, F_wes, F_bad, F_field, F_order}

\* values of the DRY_RUN environment variable
DryRunValues == {"FALSE", "No", "Yes", "0"}

Range(q) == {q[i] : i \in 1..Len(q)}

\* all sequences of distinct logins of length at most n
RECURSIVE DistinctSeqs(_)
DistinctSeqs(n) ==
    IF n = 0 THEN {<<>>}
    ELSE LET shorter == DistinctSeqs(n - 1)
         IN shorter \cup
            UNION {{Append(q, m) : m \in Logins \ Range(q)} :
                      q \in {r \in shorter : Len(r) = n - 1}}

VARIABLES
    environ,               \* os.environ: name -> PyStr or PyNone (unset)
    PAT, ORG, TEAM_NAME, DRY_RUN, USER_FILTERS,   \* module globals
    pc,                    \* where the process is
    org_directory,         \* directory: the organization's members, in listing order
    team_exists,           \* directory: a team named TEAM_NAME exists
    team_directory,        \* directory: the team's members
    can_create,            \* the credential has the admin:org scope
    current_org_members,   \* main's snapshot of the organization (dict, in order)
    current_team_members,  \* main's snapshot of the team (keys of the dict)
    member_count,          \* main's loop counter
    action,                \* branch of the if/elif/else taken for each member
    result,                \* return value of add_/remove_member for each member
    calls,                 \* directory calls issued by this run, in order
    sleeps,                \* time.sleep(DELAY) calls of this run
    run,                   \* number of the current process run
    prev_clean,            \* the previous run was live, returned from main
                           \* and no directory call of it failed
    prev_mutated,          \* the previous run changed the team
    prev_dry,              \* the previous run was a dry run
    prev_action            \* the actions the previous run selected

vars == <<environ, PAT, ORG, TEAM_NAME, DRY_RUN, USER_FILTERS, pc,
          org_directory, team_exists, team_directory, can_create,
          current_org_members, current_team_members, member_count,
          action, result, calls, sleeps, run, prev_clean, prev_mutated,
          prev_dry, prev_action>>

history == <<run, prev_clean, prev_mutated, prev_dry, prev_action>>
globals == <<PAT, ORG, TEAM_NAME, DRY_RUN, USER_FILTERS>>
directory == <<org_directory, team_exists, team_directory, can_create>>
locals == <<current_org_members, current_team_members, member_count,
            action, result, sleeps>>

Unset == [t |-> "unset"]

\* json.loads on the USER_FILTERS texts of the model
json_loads(text) ==
    CASE text.v = "[]" -> PyList
      [] text.v = "{}" -> F_empty
      [] text.v = "{login: {reject: [^w], allow: [s$]}}" -> F_wes
      [] text.v = "{login: {reject: [^j, (]}}" -> F_bad
      [] text.v = "{team: {reject: [.]}}" -> F_field
      [] text.v = "{login: {reject: [^w], order: 1}, type: {reject: [^u], allow: [.], order: 0}}"
            -> F_order

FilterTexts == {"{}", "{login: {reject: [^w], allow: [s$]}}",
                "{login: {reject: [^j, (]}}", "{team: {reject: [.]}}",
                "{login: {reject: [^w], order: 1}, type: {reject: [^u], allow: [.], order: 0}}"}

(***************************************************************************)
(* The rule engine.  A Python call that raises is modelled by the name of  *)
(* the exception in place of the return value.                             *)
(***************************************************************************)
Raised(x) == x \in {"AttributeError", "KeyError", "re.error"}

\* the member object github.get_user(login) returns, as far as rules see it:
\* the attributes getattr finds on it (an organization member's type is "User")
NamedUser(login) == [login |-> login, type |-> <<"U", "s", "e", "r">>]

\* USER_FILTERS[field]
filter_of(field) ==
    LET i == CHOOSE i \in 1..Len(USER_FILTERS.items) :
                 USER_FILTERS.items[i][1] = field
    IN USER_FILTERS.items[i][2]

\* the for loop of matches_regexes from the i-th regex on
RECURSIVE match_from(_, _, _, _)
match_from(regexes, i, member, field) ==
    IF i > Len(regexes) THEN "False"
    ELSE IF field \notin DOMAIN member THEN "AttributeError"   \* getattr
    ELSE IF re_malformed(regexes[i]) THEN "re.error"           \* re.search
    ELSE IF re_search(regexes[i], member[field]) THEN "True"
    ELSE match_from(regexes, i + 1, member, field)

matches_regexes(member, field, key) ==
    IF /\ \E i \in 1..Len(USER_FILTERS.items) : USER_FILTERS.items[i][1] = field
       /\ key \in DOMAIN filter_of(field)
    THEN match_from(filter_of(field)[key], 1, member, field)
    ELSE "False"

\* "order" in item tests the members of the (field, rule) tuple, so it holds
\* only for a field that is itself named "order"
order_in_item(item) == item[1] = "order"

\* item[1]["order"] of such an item raises when the rule has no order key
user_filter_order_raises(item) ==
    order_in_item(item) /\ "order" \notin DOMAIN item[2]

user_filter_order(item) ==
    IF order_in_item(item) THEN item[2].order ELSE 0

\* sorted(items, key=user_filter_order): stable, ascending
RECURSIVE sorted(_)
sorted(items) ==
    IF Len(items) <= 1 THEN items
    ELSE LET rest == sorted(Tail(items))
             k == user_filter_order(Head(items))
             before == {i \in 1..Len(rest) : user_filter_order(rest[i]) < k}
             n == Cardinality(before)
         IN SubSeq(rest, 1, n) \o <<Head(items)>> \o SubSeq(rest, n + 1, Len(rest))

\* as allow_from, with the allow list consulted whether or not a reject matched
RECURSIVE allow_from_Independent(_, _, _, _)
allow_from_Independent(fields, i, member, allow_this_user) ==
    IF i > Len(fields) THEN allow_this_user
    ELSE LET rejected == matches_regexes(member, fields[i][1], "reject")
             allowed == matches_regexes(member, fields[i][1], "allow")
         IN IF Raised(rejected) THEN rejected
            ELSE IF Raised(allowed) THEN allowed
            ELSE allow_from_Independent(fields, i + 1, member,
                    IF allowed = "True" THEN "True"
                    ELSE IF rejected = "True" THEN "False"
                    ELSE allow_this_user)

\* the for loop of allow_user from the i-th field on
RECURSIVE allow_from(_, _, _, _)
allow_from(fields, i, member, allow_this_user) ==
    IF i > Len(fields) THEN allow_this_user
    ELSE LET rejected == matches_regexes(member, fields[i][1], "reject")
             allowed == matches_regexes(member, fields[i][1], "allow")
         IN IF Raised(rejected) THEN rejected
            ELSE IF rejected = "False"
                 THEN allow_from(fields, i + 1, member, allow_this_user)
            ELSE IF Raised(allowed) THEN allowed
            ELSE allow_from(fields, i + 1, member,
                            IF allowed = "True" THEN "True" ELSE "False")

\* "True", "False" or "None", or the exception the call raises
allow_user(member) ==
    IF USER_FILTERS.t # "dict" THEN "AttributeError"    \* list has no items()
    ELSE IF \E i \in 1..Len(USER_FILTERS.items) :
               user_filter_order_raises(USER_FILTERS.items[i])
         THEN "KeyError"
    ELSE allow_from(sorted(USER_FILTERS.items), 1, member, "None")

\* as is_dry_run, with False as the fall-through value
is_dry_run_FailOpen(value) ==
    LET normalized_value == lower(value.v)
    IN IF normalized_value \in {"true", "yes"} THEN TRUE
       ELSE IF normalized_value \in {"false", "no"} THEN FALSE
       ELSE FALSE

is_dry_run(value) ==
    LET normalized_value == lower(value.v)
    IN IF normalized_value \in {"true", "yes"} THEN TRUE
       ELSE IF normalized_value \in {"false", "no"} THEN FALSE
       ELSE TRUE

(***************************************************************************)
(* main                                                                    *)
(***************************************************************************)
\* the dict get_group_logins builds: the logins in first-occurrence order
RECURSIVE get_group_logins(_)
get_group_logins(members) ==
    IF members = <<>> THEN <<>>
    ELSE LET front == get_group_logins(SubSeq(members, 1, Len(members) - 1))
             last == members[Len(members)]
         IN IF last \in Range(front) THEN front ELSE Append(front, last)

member_total == Len(current_org_members)

\* some enumeration of a set of logins
RECURSIVE SetToSeq(_)
SetToSeq(S) ==
    IF S = {} THEN <<>>
    ELSE LET m == CHOOSE m \in S : TRUE IN <<m>> \o SetToSeq(S \ {m})

\* as LoopMembers, going on with the team's members the organization lacks
LoopMembers_WithTeam ==
    current_org_members \o
        SetToSeq(current_team_members \ Range(current_org_members))

\* as LoopMembers, in the opposite order
LoopMembers_Reversed ==
    [i \in 1..Len(current_org_members) |->
        current_org_members[Len(current_org_members) + 1 - i]]

\* the sequence the for loop of main iterates over
LoopMembers == current_org_members

\* as SelectAction, admitting only on an explicit True
SelectAction_AllowOnly(member, verdict) ==
    IF member \in current_team_members /\ verdict = "False"
    THEN "RemoveFromTeam"
    ELSE IF member \notin current_team_members /\ verdict = "True"
    THEN "AddToTeam"
    ELSE "NoOp"

\* as SelectAction, testing "not allow_user(...)" in place of "is False"
SelectAction_Falsy(member, verdict) ==
    IF member \in current_team_members /\ verdict \in {"False", "None"}
    THEN "RemoveFromTeam"
    ELSE IF member \notin current_team_members /\ verdict \in {"None", "True"}
    THEN "AddToTeam"
    ELSE "NoOp"

\* as SelectAction, adding without looking at the team snapshot
SelectAction_AddAgain(member, verdict) ==
    IF member \in current_team_members /\ verdict = "False"
    THEN "RemoveFromTeam"
    ELSE IF verdict \in {"None", "True"}
    THEN "AddToTeam"
    ELSE "NoOp"

\* as SelectAction, with a dry run taking the no-action branch
SelectAction_DryNoOp(member, verdict) ==
    IF is_dry_run(DRY_RUN) THEN "NoOp"
    ELSE IF member \in current_team_members /\ verdict = "False"
    THEN "RemoveFromTeam"
    ELSE IF member \notin current_team_members /\ verdict \in {"None", "True"}
    THEN "AddToTeam"
    ELSE "NoOp"

\* as SelectAction, removing on Reject without looking at the team snapshot
SelectAction_RemoveAbsent(member, verdict) ==
    IF verdict = "False"
    THEN "RemoveFromTeam"
    ELSE IF member \notin current_team_members /\ verdict \in {"None", "True"}
    THEN "AddToTeam"
    ELSE "NoOp"

\* the if / elif / else of main, given the value allow_user returned
SelectAction(member, verdict) ==
    IF member \in current_team_members /\ verdict = "False"
    THEN "RemoveFromTeam"
    ELSE IF member \notin current_team_members /\ verdict \in {"None", "True"}
    THEN "AddToTeam"
    ELSE "NoOp"

Call(op, arg) == [op |-> op, arg |-> arg]

NoActions == [m \in Logins |-> "unset"]

Init ==
    /\ environ \in [PAT : {PyNone, PyStr("ghp_token")},
                    ORG : {PyNone, PyStr("my-organization")},
                    TEAM_NAME : {PyNone, PyStr("everyone")},
                    DRY_RUN : {PyNone} \cup {PyStr(d) : d \in DryRunValues},
                    USER_FILTERS : {PyNone} \cup {PyStr(f) : f \in FilterTexts}]
    /\ PAT = Unset /\ ORG = Unset /\ TEAM_NAME = Unset
    /\ DRY_RUN = Unset /\ USER_FILTERS = Unset
    /\ pc = "load"
    /\ org_directory \in DistinctSeqs(MaxOrg)
    /\ team_exists \in BOOLEAN
    /\ team_directory \in SUBSET Logins
    /\ ~team_exists => team_directory = {}
    /\ can_create \in BOOLEAN
    /\ current_org_members = <<>>
    /\ current_team_members = {}
    /\ member_count = 0
    /\ action = NoActions
    /\ result = NoActions
    /\ calls = <<>>
    /\ sleeps = 0
    /\ run = 1
    /\ prev_clean = FALSE
    /\ prev_mutated = FALSE
    /\ prev_dry = FALSE
    /\ prev_action = NoActions

\* module level, lines 31-85: read the environment, check the required settings
Load ==
    /\ pc = "load"
    /\ PAT' = str(getenv(environ, "PAT", PyNone))
    /\ ORG' = str(getenv(environ, "ORG", PyNone))
    /\ TEAM_NAME' = getenv(environ, "TEAM_NAME", PyNone)
    /\ DRY_RUN' = getenv(environ, "DRY_RUN", PyStr("True"))
    /\ USER_FILTERS' = json_loads(getenv(environ, "USER_FILTERS", PyStr("[]")))
    /\ pc' = IF IsNone(PAT') \/ IsNone(ORG') \/ IsNone(TEAM_NAME')
             THEN "exit"                      \* sys.exit(1)
             ELSE "main"
    /\ UNCHANGED <<environ, directory, locals, calls, history>>

\* main, lines 412-418: the directory rejects a request made without a
\* credential; any other request may succeed or fail
GetOrganization ==
    /\ pc = "main"
    /\ \E ok \in BOOLEAN :
          /\ PAT.v = "None" => ~ok
          /\ pc' = IF ok THEN "team" ELSE "crashed"
    /\ calls' = Append(calls, Call("get_organization", <<>>))
    /\ UNCHANGED <<environ, globals, directory, locals, history>>

\* as AfterCreateTeam, with the failure caught and the run going on
AfterCreateTeam_Caught(created) == "snapshot"

\* organization.create_team raises without the admin:org scope, and nothing
\* between it and the top level catches the exception
AfterCreateTeam(created) == IF created THEN "snapshot" ELSE "crashed"

\* create_team_if_not_exists
CreateTeamIfNotExists ==
    /\ pc = "team"
    /\ \E ok \in BOOLEAN :
          IF ~ok
          THEN /\ calls' = Append(calls, Call("get_teams", <<>>))
               /\ pc' = "crashed"
               /\ UNCHANGED <<team_exists, team_directory>>
          ELSE IF team_exists
          THEN /\ calls' = Append(calls, Call("get_teams", <<>>))
               /\ pc' = "snapshot"
               /\ UNCHANGED <<team_exists, team_directory>>
          ELSE /\ calls' = calls \o <<Call("get_teams", <<>>),
                                      Call("create_team", <<>>)>>
               /\ pc' = AfterCreateTeam(can_create)
               /\ IF can_create
                  THEN team_exists' = TRUE /\ team_directory' = {}
                  ELSE UNCHANGED <<team_exists, team_directory>>
    /\ UNCHANGED <<environ, globals, org_directory, can_create, locals,
                   history>>

\* main, lines 422-426: the two snapshots; the loop over no members returns
Snapshot ==
    /\ pc = "snapshot"
    /\ calls' = calls \o <<Call("get_members", <<>>), Call("get_members", <<>>)>>
    /\ \E ok \in BOOLEAN :
          IF ok
          THEN /\ current_org_members' = get_group_logins(org_directory)
               /\ current_team_members' = team_directory
               /\ member_count' = 0
               /\ pc' = IF Len(LoopMembers') = 0 THEN "done" ELSE "loop"
          ELSE /\ pc' = "crashed"
               /\ UNCHANGED <<current_org_members, current_team_members,
                              member_count>>
    /\ UNCHANGED <<environ, globals, directory, action, result, sleeps,
                   history>>

\* the directory call add_member_to_team / remove_member_from_team issues
MutationCall(act, member) ==
    IF act = "AddToTeam" THEN Call("add_membership", member)
    ELSE Call("remove_member", member)

\* the team after a successful mutation call
Mutated(act, member) ==
    IF act = "AddToTeam" THEN team_directory \cup {member}
    ELSE team_directory \ {member}

\* as Pace, sleeping after every member
Pace_Always(count) == 1

\* the time.sleep calls at the end of the iteration that made member_count
\* equal to count
Pace(count) == IF count # member_total THEN 1 ELSE 0

\* one iteration of the for loop of main, lines 428-453.  user_ok: get_user
\* succeeds; outcome: what the add or remove call does, when one is issued
\* ("True": done, "False": failure reported, "raise": failure raised)
ProcessMember ==
    /\ pc = "loop"
    /\ member_count < Len(LoopMembers)
    /\ LET member == LoopMembers[member_count + 1]
           verdict == allow_user(NamedUser(member))
           act == SelectAction(member, verdict)
           issued == act # "NoOp" /\ ~is_dry_run(DRY_RUN)
       IN \E user_ok \in BOOLEAN, outcome \in {"True", "False", "raise"} :
             IF ~user_ok
             THEN /\ outcome = "True"
                  /\ calls' = Append(calls, Call("get_user", member))
                  /\ pc' = "crashed"
                  /\ UNCHANGED <<member_count, action, result, sleeps,
                                 team_directory>>
             ELSE IF Raised(verdict)
             THEN /\ outcome = "True"
                  /\ calls' = Append(calls, Call("get_user", member))
                  /\ member_count' = member_count + 1
                  /\ pc' = "crashed"
                  /\ UNCHANGED <<action, result, sleeps, team_directory>>
             ELSE /\ ~issued => outcome = "True"
                  /\ member_count' = member_count + 1
                  /\ action' = [action EXCEPT ![member] = act]
                  /\ calls' = IF issued
                              THEN calls \o <<Call("get_user", member),
                                              MutationCall(act, member)>>
                              ELSE Append(calls, Call("get_user", member))
                  /\ result' = [result EXCEPT ![member] =
                                   IF act = "NoOp" THEN "unset"
                                   ELSE IF ~issued THEN "None"
                                   ELSE outcome]
                  /\ team_directory' = IF issued /\ outcome = "True"
                                       THEN Mutated(act, member)
                                       ELSE team_directory
                  /\ IF issued /\ outcome = "raise"
                     THEN pc' = "crashed" /\ sleeps' = sleeps
                     ELSE /\ sleeps' = sleeps + Pace(member_count')
                          /\ pc' = IF member_count' = Len(LoopMembers)
                                   THEN "done" ELSE "loop"
    /\ UNCHANGED <<environ, globals, org_directory, team_exists, can_create,
                   current_org_members, current_team_members, history>>

\* a failed add or remove call of this run, reported or raised
MutationFailed == \E m \in Logins : result[m] \in {"False", "raise"}

\* the DRY_RUN settings a following run may be started with: the same one,
\* the default, or live
NextDryRun == {environ.DRY_RUN, PyNone, PyStr("FALSE")}

\* the script is run again, lines 456-457, against the directory as it is now
Restart ==
    /\ pc \in {"done", "exit", "crashed"}
    /\ run < MaxRuns
    /\ run' = run + 1
    /\ prev_clean' = (pc = "done" /\ ~is_dry_run(DRY_RUN) /\ ~MutationFailed)
    /\ prev_mutated' = (\E m \in Logins : result[m] = "True")
    /\ prev_dry' = is_dry_run(DRY_RUN)
    /\ prev_action' = action
    /\ \E d \in NextDryRun : environ' = [environ EXCEPT !.DRY_RUN = d]
    /\ pc' = "load"
    /\ PAT' = Unset /\ ORG' = Unset /\ TEAM_NAME' = Unset
    /\ DRY_RUN' = Unset /\ USER_FILTERS' = Unset
    /\ current_org_members' = <<>>
    /\ current_team_members' = {}
    /\ member_count' = 0
    /\ action' = NoActions
    /\ result' = NoActions
    /\ calls' = <<>>
    /\ sleeps' = 0
    /\ UNCHANGED directory

Next ==
    \/ Load
    \/ GetOrganization
    \/ CreateTeamIfNotExists
    \/ Snapshot
    \/ ProcessMember
    \/ Restart

Spec == Init /\ [][Next]_vars

\* the interpreter runs the single thread of the process whenever it can run:
\* a step of the process that is possible is eventually taken
ProcessStep ==
    Load \/ GetOrganization \/ CreateTeamIfNotExists \/ Snapshot \/ ProcessMember

\* the runs that get into main, as dry runs by default or live
FairInit ==
    /\ Init
    /\ ~IsNone(environ.PAT) /\ ~IsNone(environ.ORG) /\ ~IsNone(environ.TEAM_NAME)
    /\ environ.DRY_RUN \in {PyNone, PyStr("FALSE")}

FairSpec == FairInit /\ [][Next]_vars /\ WF_vars(ProcessStep)

\* the exit status of a finished process
ExitStatus == IF pc = "done" THEN 0 ELSE 1

(***************************************************************************)
(* Properties                                                              *)
(***************************************************************************)
\* dry-run as the settings ask for it: DRY_RUN unset, or set to anything but
\* a spelling of false or no
DryRunRequested ==
    \/ IsNone(environ.DRY_RUN)
    \/ environ.DRY_RUN.v \notin {"FALSE", "False", "false", "NO", "No", "no"}

MutationOps == {"add_membership", "remove_member"}
WriteOps == MutationOps \cup {"create_team"}
Issued(ops) == {i \in 1..Len(calls) : calls[i].op \in ops}

\* main has returned
PassDone == pc = "done"

\* C1: after a live pass in which no directory call fails, every identity of
\* the organization snapshot is in the team exactly when its verdict is not
\* Reject.
C1_LiveReconciled ==
    (PassDone /\ ~DryRunRequested /\ ~MutationFailed) =>
        \A m \in Range(current_org_members) :
            (m \in team_directory) <=> (allow_user(NamedUser(m)) # "False")

C1_Witness ==
    /\ PassDone /\ ~DryRunRequested /\ ~MutationFailed
    /\ \E m \in Logins : action[m] = "AddToTeam" /\ m \in team_directory
    /\ \E m \in Logins : action[m] = "RemoveFromTeam" /\ m \notin team_directory

\* C2: the action selected for an organization member is the one the decision
\* table gives for (in the team snapshot, verdict), and a pass that returns
\* has selected an action for every member of the organization snapshot.
C2_DecisionTable ==
    /\ \A m \in Logins :
          action[m] # "unset" =>
             LET inTeam == m \in current_team_members
                 verdict == allow_user(NamedUser(m))
             IN action[m] =
                   CASE inTeam /\ verdict = "False" -> "RemoveFromTeam"
                     [] inTeam /\ verdict \in {"True", "None"} -> "NoOp"
                     [] ~inTeam /\ verdict \in {"True", "None"} -> "AddToTeam"
                     [] ~inTeam /\ verdict = "False" -> "NoOp"
    /\ PassDone => \A m \in Range(current_org_members) : action[m] # "unset"

C2_Witness ==
    /\ PassDone
    /\ \E m1, m2 \in Logins :
          /\ m1 \in current_team_members /\ action[m1] = "NoOp"
          /\ allow_user(NamedUser(m1)) = "None"
          /\ m2 \notin current_team_members /\ action[m2] = "NoOp"
          /\ allow_user(NamedUser(m2)) = "False"

\* C3: with dry-run enabled no add or remove call is issued to the directory,
\* and every add or remove the pass selects returns None.
C3_DryRunNoMutation ==
    DryRunRequested =>
        /\ Issued(MutationOps) = {}
        /\ \A m \in Logins :
              action[m] \in {"AddToTeam", "RemoveFromTeam"} => result[m] = "None"

C3_Witness ==
    /\ DryRunRequested /\ PassDone
    /\ \E m \in Logins : action[m] = "AddToTeam" /\ result[m] = "None"
    /\ \E m \in Logins : action[m] = "RemoveFromTeam" /\ result[m] = "None"

NoAddOrRemove ==
    \A m \in Logins : action[m] \notin {"AddToTeam", "RemoveFromTeam"}

\* C4 as stated: a run that follows another run, the organization unchanged
\* in between, selects no AddToTeam and no RemoveFromTeam.
C4_SecondRunSelectsNothing == run >= 2 => NoAddOrRemove

\* C4, amended: a run that follows a live run which returned from main with
\* no failed directory call selects no AddToTeam and no RemoveFromTeam.
C4_SecondRunAfterCleanLiveRun == (run >= 2 /\ prev_clean) => NoAddOrRemove

C4_Witness ==
    /\ run >= 2 /\ prev_clean /\ prev_mutated /\ PassDone
    /\ Len(current_org_members) = MaxOrg
    /\ \A m \in Range(current_org_members) : action[m] = "NoOp"

\* C5: a failed add or remove call does not abort the pass: with members
\* left to process after the failure, the run has not stopped at that call.
C5_FailureDoesNotAbort ==
    (MutationFailed /\ member_count < member_total) =>
        ~(pc = "crashed" /\ calls[Len(calls)].op \in MutationOps)

\* C6: with dry-run enabled the run issues no write to the directory: no
\* add, no remove and no team creation.
C6_DryRunReadOnly == DryRunRequested => Issued(WriteOps) = {}

\* C7: no step of a run issues a call for an identity that is absent from the
\* organization, nor changes whether that identity is in the team.
C7_StaleUntouched ==
    [][\A m \in Logins \ Range(org_directory) :
          /\ (m \in team_directory) <=> (m \in team_directory')
          /\ \A i \in 1..Len(calls') : calls'[i].arg # m]_vars

C7_Witness ==
    /\ PassDone /\ ~DryRunRequested
    /\ \E m \in Logins \ Range(org_directory) : m \in team_directory
    /\ \E m \in Logins : result[m] = "True" /\ action[m] = "RemoveFromTeam"

\* C8: when the team does not exist and the credential cannot create it, the
\* run never gets past team resolution and issues no add or remove call.
C8_CreateDeniedAborts ==
    (~team_exists /\ ~can_create) =>
        /\ pc \in {"load", "main", "team", "exit", "crashed"}
        /\ Issued(MutationOps) = {}

C8_Witness ==
    /\ ~team_exists /\ ~can_create /\ pc = "crashed"
    /\ Len(calls) > 0 /\ calls[Len(calls)].op = "create_team"
    /\ ~DryRunRequested /\ Len(org_directory) > 0

SettingMissing ==
    IsNone(environ.PAT) \/ IsNone(environ.ORG) \/ IsNone(environ.TEAM_NAME)

Finished == pc \in {"done", "exit", "crashed"}

\* C9: with PAT, ORG or TEAM_NAME missing from the environment the process
\* makes no directory call and its exit status is not zero.
C9_MissingSettingExits ==
    SettingMissing =>
        /\ calls = <<>>
        /\ Finished => ExitStatus # 0

MalformedPattern ==
    /\ ~IsNone(environ.USER_FILTERS)
    /\ LET rules == json_loads(environ.USER_FILTERS).items
       IN \E i \in 1..Len(rules) : \E key \in DOMAIN rules[i][2] \cap {"reject", "allow"} :
             \E k \in 1..Len(rules[i][2][key]) :
                re_malformed(rules[i][2][key][k])

\* C10: with the required settings present, a malformed pattern in the rule
\* set stops the process before any directory call and before any member
\* is processed.
C10_MalformedPatternFailsAtLoad ==
    (MalformedPattern /\ ~SettingMissing) =>
        /\ calls = <<>>
        /\ member_count = 0

\* some pattern of the list is found in the string
SomeMatch(patterns, string) ==
    \E k \in 1..Len(patterns) : re_search(patterns[k], string)

\* what one rule alone says about a value: reject first, allow only after it
RuleVerdict(rule, value) ==
    LET rejected == "reject" \in DOMAIN rule /\ SomeMatch(rule.reject, value)
        allowed == "allow" \in DOMAIN rule /\ SomeMatch(rule.allow, value)
    IN IF ~rejected THEN "None" ELSE IF allowed THEN "True" ELSE "False"

WellFormed(rule) ==
    \A key \in DOMAIN rule \cap {"reject", "allow"} :
        \A k \in 1..Len(rule[key]) : ~re_malformed(rule[key][k])

SingleLoginRule ==
    /\ USER_FILTERS.t = "dict"
    /\ Len(USER_FILTERS.items) = 1
    /\ USER_FILTERS.items[1][1] = "login"
    /\ WellFormed(USER_FILTERS.items[1][2])

\* C11: with a single login rule the verdict of allow_user is False iff the
\* login matches a reject pattern and no allow pattern, True iff it matches
\* a reject and an allow pattern, None iff it matches no reject pattern; with
\* reject ^w / allow s$, wes is True, wanda False, jess None.
C11_SingleRuleVerdict ==
    SingleLoginRule =>
        /\ \A m \in Logins :
              allow_user(NamedUser(m)) = RuleVerdict(USER_FILTERS.items[1][2], m)
        /\ USER_FILTERS = F_wes =>
              /\ allow_user(NamedUser(wes)) = "True"
              /\ allow_user(NamedUser(wanda)) = "False"
              /\ allow_user(NamedUser(jess)) = "None"

C11_Witness ==
    /\ USER_FILTERS = F_wes /\ PassDone
    /\ Range(current_org_members) = {wanda, jess}
    /\ current_team_members = {wanda, jess}
    /\ action[wanda] = "RemoveFromTeam" /\ action[jess] = "NoOp"

TwoOrderedRules ==
    /\ USER_FILTERS.t = "dict"
    /\ Len(USER_FILTERS.items) = 2
    /\ \A i \in 1..2 :
          /\ "order" \in DOMAIN USER_FILTERS.items[i][2]
          /\ WellFormed(USER_FILTERS.items[i][2])
          /\ USER_FILTERS.items[i][1] \in DOMAIN NamedUser(wes)
    /\ {USER_FILTERS.items[i][2].order : i \in 1..2} = {0, 1}

\* C12: rules are applied in ascending value of their order key, whatever
\* the order they are declared in: when a rule of order 0 and a rule of
\* order 1 both determine a verdict for an identity, the verdict of
\* allow_user is the one of the order-1 rule.
C12_OrderOneRuleWins ==
    TwoOrderedRules =>
        \A m \in Logins :
            LET hi == CHOOSE i \in 1..2 : USER_FILTERS.items[i][2].order = 1
                lo == 3 - hi
                verdictOf(i) ==
                    RuleVerdict(USER_FILTERS.items[i][2],
                                NamedUser(m)[USER_FILTERS.items[i][1]])
            IN (verdictOf(hi) # "None" /\ verdictOf(lo) # "None") =>
                  allow_user(NamedUser(m)) = verdictOf(hi)

\* the rule set is empty: USER_FILTERS is not configured, or is {}
EmptyRuleSet ==
    IsNone(environ.USER_FILTERS) \/ environ.USER_FILTERS.v = "{}"

\* C13: with an empty rule set every member the pass has processed is added
\* when absent from the team and left alone when present.
C13_EmptyRuleSetAdmits ==
    EmptyRuleSet =>
        \A i \in 1..member_count :
            action[current_org_members[i]] =
                IF current_org_members[i] \in current_team_members
                THEN "NoOp" ELSE "AddToTeam"

\* the rule set has a rule keyed by a field other than login
HasUnsupportedField ==
    /\ USER_FILTERS.t = "dict"
    /\ \E i \in 1..Len(USER_FILTERS.items) : USER_FILTERS.items[i][1] # "login"
    /\ \A i \in 1..Len(USER_FILTERS.items) : WellFormed(USER_FILTERS.items[i][2])

\* the verdict of the rule set with every rule on another field than login
\* left out
VerdictOfLoginRules(login) ==
    IF \E i \in 1..Len(USER_FILTERS.items) : USER_FILTERS.items[i][1] = "login"
    THEN RuleVerdict(filter_of("login"), login)
    ELSE "None"

\* C14: a rule keyed by a field other than login never matches and never
\* fails the run: every member the pass has processed got the action its
\* verdict without that rule calls for.
C14_UnsupportedFieldIgnored ==
    HasUnsupportedField =>
        \A i \in 1..member_count :
            LET m == current_org_members[i]
                verdict == VerdictOfLoginRules(m)
            IN action[m] =
                  IF m \in current_team_members
                  THEN IF verdict = "False" THEN "RemoveFromTeam" ELSE "NoOp"
                  ELSE IF verdict = "False" THEN "NoOp" ELSE "AddToTeam"

\* C15: a process in whose pass an add or remove call failed ends with a
\* non-zero exit status.
C15_FailedMutationExitsNonZero ==
    (Finished /\ MutationFailed) => ExitStatus # 0

\* C16: the pass sleeps once after every member it has processed except the
\* last: while the loop runs every processed member has been followed by a
\* delay, and a pass that returns over n members has made max(0, n - 1).
C16_Pacing ==
    /\ pc = "loop" => sleeps = member_count
    /\ PassDone => sleeps = IF member_total = 0 THEN 0 ELSE member_total - 1

C16_Witness ==
    /\ PassDone /\ member_total = MaxOrg /\ sleeps = MaxOrg - 1 /\ sleeps > 0

\* C17: is_dry_run is False only for a DRY_RUN value that is, in any letter
\* case, false or no; for an unset DRY_RUN and for every other value it is
\* True and the run performs no write.
C17_DryRunFailSafe ==
    DRY_RUN.t = "str" =>
        /\ is_dry_run(DRY_RUN) <=> DryRunRequested
        /\ is_dry_run(DRY_RUN) => Issued(WriteOps) = {}

\* the part of C17 that is about the value of is_dry_run alone
DryRunValueAsDocumented ==
    DRY_RUN.t = "str" => (is_dry_run(DRY_RUN) <=> DryRunRequested)

\* C18: two runs over the same organization, team and rule set, one a dry
\* run and the other live, select the same action for every member both of
\* them have processed.
C18_SameActionsDryAndLive ==
    (run >= 2 /\ ~prev_mutated /\ prev_dry # DryRunRequested) =>
        \A m \in Logins :
            (action[m] # "unset" /\ prev_action[m] # "unset") =>
                action[m] = prev_action[m]

C18_Witness ==
    /\ run >= 2 /\ ~prev_mutated /\ prev_dry /\ ~DryRunRequested /\ PassDone
    /\ \E m \in Logins :
          action[m] = "AddToTeam" /\ prev_action[m] = "AddToTeam"
          /\ result[m] = "True"
    /\ \E m \in Logins :
          action[m] = "RemoveFromTeam" /\ prev_action[m] = "RemoveFromTeam"
          /\ result[m] = "True"

\* the logins github.get_user was called for in this run, in call order
UsersFetched ==
    LET fetches == SelectSeq(calls, LAMBDA c : c.op = "get_user")
    IN [i \in 1..Len(fetches) |-> fetches[i].arg]

IsPrefix(p, q) == Len(p) <= Len(q) /\ p = SubSeq(q, 1, Len(p))

\* the members of this run's pass that have been through the loop body
ProcessedInOrder ==
    /\ IsPrefix(UsersFetched, org_directory)
    /\ Len(UsersFetched) \in {member_count, member_count + 1}
    /\ Len(UsersFetched) = member_count + 1 => pc = "crashed"
    /\ {m \in Logins : action[m] # "unset"} \subseteq
          Range(SubSeq(org_directory, 1, member_count))
    /\ PassDone =>
          /\ UsersFetched = org_directory
          /\ \A m \in Range(org_directory) : action[m] # "unset"

MutationsFor(m) == {i \in Issued(MutationOps) : calls[i].arg = m}

\* C20: a pass issues at most one add or remove call per identity, and only
\* for identities of the organization snapshot: an add only for an identity
\* absent from the team snapshot, a remove only for one present in it.
C20_OneMutationPerMember ==
    \A m \in Logins :
        /\ Cardinality(MutationsFor(m)) <= 1
        /\ \A i \in MutationsFor(m) :
              /\ m \in Range(current_org_members)
              /\ calls[i].op = "add_membership" => m \notin current_team_members
              /\ calls[i].op = "remove_member" => m \in current_team_members

C20_Witness ==
    /\ PassDone
    /\ \E m1, m2 \in Logins :
          /\ \E i \in MutationsFor(m1) : calls[i].op = "add_membership"
          /\ \E i \in MutationsFor(m2) : calls[i].op = "remove_member"

====
